---- MODULE Spec2Model ----
(***************************************************************************)
(* Model of os-terminal-bare (src/src/main.rs, src/src/backends/fbdev.rs): *)
(* the PTY reader thread, the flush driver thread and the input polling    *)
(* loop of main(), the terminal mutex, the redraw channel, and the kernel  *)
(* objects they talk to (the two directions of the pty, the shell, the     *)
(* evdev queues, the monotonic clock).                                     *)
(*                                                                         *)
(* Time is kept as ages: the model stores how long ago an Instant was      *)
(* taken (Instant::now() sets the age to 0, Tick lets every age grow).     *)
(* The code only compares an elapsed time with frame_interval, so ages     *)
(* saturate at FrameInterval.                                              *)
(***************************************************************************)
EXTENDS Integers, Sequences, FiniteSets, TLC

\* ---- bounds of the model (environment budgets) ----
MaxEvents == 2       \* shell writes, key events and mouse events in a run of Spec
TimedEvents == 3     \* shell writes and key events in a run of TimedSpec
FairEvents == 2      \* shell writes, key events and mouse events in a run of FairSpec
BlockEvents == 1     \* shell writes, key events and mouse events in a run of BlockSpec
BlockWrite == 5      \* bytes one write of the shell may carry in a run of BlockSpec
PtyInCap == 1        \* writes the kernel buffers master -> shell
SetupEvents == 2     \* shell writes in a run of SetupSpec
MouseBatch == 3      \* events one fetch_events of the mouse returns in MouseSpec
MaxWidth == 3        \* widest display of DrawSpec, in pixels
MaxHeight == 3       \* highest display of DrawSpec, in pixels
MaxPad == 1          \* most rows the mapping has beyond the visible ones in DrawSpec
MaxDraws == 1        \* draw_pixel calls in a run of DrawSpec

\* ---- program constants ----
FrameInterval == 16      \* Duration::from_millis(16)
TempSize == 16384        \* [0u8; 16384]
ExtendedBase == 57344    \* 0xe000
ReleaseBias == 128       \* 0x80
PrefixByte == 224        \* 0xe0
U16 == 65536             \* keymap.win is a u16
U8 == 256                \* scancode as u8
ExitOk == 0              \* process::exit(0)
ExitErr == 1             \* process::exit(1), and main returning Err
ExitPanic == 101         \* a panic of the main thread
I32Bits == 32            \* the delta of an evdev event is an i32
IsizeBits == 64          \* isize on the targets with /dev/fb0 and evdev (Linux, 64 bit)
MinI32 == -2147483647 - 1
MaxI32 == 2147483647
PixelBytes == 4          \* as_chunks_mut::<4>()
Shift8 == 256            \* << 8
Shift16 == 65536         \* << 16
Shift24 == 16777216      \* the top byte of the u32

Running == -1            \* exitCode while the process is alive
Panic == -1              \* outcome of an overflowing u16 addition in a checked build
NoMap == -1              \* KeyMap::from_key_mapping returned Err

VARIABLES
  \* PTY reader thread (main.rs 65-83)
  r_pc, temp, rn,
  \* flush driver thread (main.rs 102-122)
  f_pc, lastFlushAge, sleepLeft,
  \* main thread: input polling loop (main.rs 124-169)
  m_pc, mousePresent, kbatch, scancode, mbatch, mvalue,
  \* shared: Mutex<Terminal> holder, mpsc channel length, process exit code
  lock, chan, exitCode,
  \* kernel side
  ptyOut, ptyIn, shell_pc, shellPending, nextByte, kbdQ, mouseQ, nEvents, limits,
  \* observations
  readSoFar, processed, lastRead, kcalls, mcalls,
  nSends, inWindow, burstAge, nFlushes, firstDrainSends, sinceFlushStart, flushGap,
  \* the Display (fbdev.rs 5-9), the byte order of the build, the draw_pixel calls
  width, height, map, endian, draws,
  \* setup (main.rs 25-125): TIOCSWINSZ ioctls issued, the setup step that failed
  nWinsz, setupErr

readerVars == <<r_pc, temp, rn>>
flushVars == <<f_pc, lastFlushAge, sleepLeft>>
mainVars == <<m_pc, mousePresent, kbatch, scancode, mbatch, mvalue>>
ptyVars == <<ptyOut, ptyIn, shell_pc, shellPending, nextByte>>
inputVars == <<kbdQ, mouseQ, nEvents>>
readObs == <<readSoFar, processed, lastRead>>
callObs == <<kcalls, mcalls, setupErr>>
displayVars == <<width, height, map, endian, draws>>
\* What no step of the running session changes: the budgets of the kernel
\* side, the Display as draw_pixel left it, the TIOCSWINSZ ioctls of setup.
fixedVars == <<limits, displayVars, nWinsz>>
sendObs == <<nSends, inWindow>>
flushObs == <<nFlushes, firstDrainSends, sinceFlushStart, flushGap>>

vars == <<readerVars, flushVars, mainVars, lock, chan, exitCode, ptyVars, inputVars,
          fixedVars, readObs, callObs, sendObs, burstAge, flushObs>>

Min(a, b) == IF a < b THEN a ELSE b
Max(a, b) == IF a > b THEN a ELSE b

Alive == exitCode = Running

\* ---------------------------------------------------------------------------
\* Key translation (main.rs 137-148) as pure operators.
\* ---------------------------------------------------------------------------

\* Mutant: the bias is added on press instead of on release.
Adjusted_OnPress(win, press) ==
  IF press = 0 THEN {win} ELSE {(win + ReleaseBias) % U16}

\* scancode = keymap.win; if press == 0 { scancode += 0x80 }.  The addition is
\* on a u16: when it overflows, a build with overflow checks panics and a
\* build without them wraps; both outcomes are kept.
Adjusted(win, press) ==
  IF press # 0 THEN {win}
  ELSE IF win + ReleaseBias < U16 THEN {win + ReleaseBias}
  ELSE {Panic, (win + ReleaseBias) % U16}

\* Mutant: the prefix is sent for every key.
PrefixCalls_Always(sc) == <<PrefixByte>>

\* if scancode >= 0xe000 { term.handle_keyboard(0xe0); ... }
PrefixCalls(sc) == IF sc >= ExtendedBase THEN <<PrefixByte>> ELSE <<>>

\* if scancode >= 0xe000 { ...; scancode -= 0xe000 }
AfterPrefix(sc) == IF sc >= ExtendedBase THEN sc - ExtendedBase ELSE sc

\* scancode as u8
AsU8(sc) == sc % U8

\* ---------------------------------------------------------------------------
\* Events the kernel can deliver.
\* ---------------------------------------------------------------------------
\* A plain key (0x001e, A) pressed, an extended key (0xe048, ArrowUp)
\* released, a key without a mapping, and an event that is no key event.
KeyEvents ==
  { [kind |-> "key", win |-> 30, value |-> 1],
    [kind |-> "key", win |-> 57416, value |-> 0],
    [kind |-> "key", win |-> NoMap, value |-> 1],
    [kind |-> "other", win |-> NoMap, value |-> 0] }

\* The wheel turned either way, and a relative-axis event of another axis.
MouseEvents ==
  [kind : {"wheel"}, value : {-1, 1}] \cup {[kind |-> "other", value |-> 1]}

TickStep == FrameInterval \div 2

\* bytes the kernel buffers shell -> master
PtyOutCap == PtyInCap + 1

\* What the kernel side may do in a run: how many events it delivers (writes
\* of the shell, keyboard events, mouse events) and how many bytes one write of
\* the shell may carry.  In Spec the shell writes byte by byte.
SpecLimits == [events |-> MaxEvents, wlen |-> 1]

\* The Display of a running session, as small as a display can be, and what
\* setup left behind: one TIOCSWINSZ, no failure.
InitDisplay ==
  /\ width = 1 /\ height = 1 /\ map = <<0, 0, 0, 0>> /\ endian = "little"
  /\ draws = <<>>

\* No setup step has failed (step), with `threads` of the two threads spawned
\* when it did.
NoSetupErr == [step |-> "none", threads |-> 0]

SetupDone == nWinsz = 1 /\ setupErr = NoSetupErr

\* ---------------------------------------------------------------------------
\* Initial state: the parent after forkpty and terminal configuration, the two
\* threads spawned (main.rs 65, 102), main about to open the input devices.
\* ---------------------------------------------------------------------------
InitProgram ==
  /\ r_pc = "read" /\ temp = <<>> /\ rn = 0
  /\ f_pc = "recv" /\ lastFlushAge = 0 /\ sleepLeft = 0
  /\ m_pc = "open" /\ mousePresent = FALSE /\ kbatch = <<>> /\ scancode = 0
  /\ mbatch = <<>> /\ mvalue = 0
  /\ lock = "none" /\ chan = 0 /\ exitCode = Running
  /\ ptyOut = <<>> /\ ptyIn = 0 /\ shell_pc = "idle" /\ shellPending = 0
  /\ nextByte = 1
  /\ kbdQ = <<>> /\ mouseQ = <<>> /\ nEvents = 0
  /\ readSoFar = <<>> /\ processed = <<>> /\ lastRead = "none"
  /\ kcalls = <<>> /\ mcalls = <<>>
  /\ nSends = 0 /\ inWindow = TRUE /\ burstAge = 0
  /\ nFlushes = 0 /\ firstDrainSends = -1 /\ sinceFlushStart = 0
  /\ flushGap = FrameInterval
  /\ InitDisplay /\ SetupDone

Init == InitProgram /\ limits = SpecLimits

\* flush_sender.send(()): one more token in the channel.
Send ==
  /\ chan' = chan + 1
  /\ nSends' = nSends + 1
  /\ inWindow' = (inWindow /\ burstAge < FrameInterval)

\* The process ends with `code`: its threads, the mutex, the channel and the
\* descriptors are gone; only what was observed of the run remains.
Exit(code) ==
  /\ exitCode' = code
  /\ r_pc' = "dead" /\ temp' = <<>> /\ rn' = 0
  /\ f_pc' = "dead" /\ lastFlushAge' = 0 /\ sleepLeft' = 0
  /\ m_pc' = "dead" /\ mousePresent' = FALSE /\ kbatch' = <<>> /\ scancode' = 0
  /\ mbatch' = <<>> /\ mvalue' = 0
  /\ lock' = "none" /\ chan' = 0
  /\ ptyOut' = <<>> /\ ptyIn' = 0 /\ shell_pc' = "exited" /\ shellPending' = 0
  /\ nextByte' = nextByte
  /\ kbdQ' = <<>> /\ mouseQ' = <<>> /\ nEvents' = nEvents
  /\ UNCHANGED fixedVars

\* The byte-sink closure (main.rs 41-43): a blocking write(2) on the master.
\* It returns once the kernel has taken the bytes, or at once with an error
\* (ignored by `let _ =`) when the slave side is gone.
PtyWriteReady == ptyIn < PtyInCap \/ shell_pc = "exited"
PtyWritten == IF shell_pc = "exited" THEN ptyIn ELSE ptyIn + 1

\* ---------------------------------------------------------------------------
\* PTY reader thread (main.rs 65-83)
\* ---------------------------------------------------------------------------

\* read(master_reader, &mut temp) returns Ok(n), n > 0: the first n buffered
\* bytes overwrite temp[..n]; the rest of temp keeps what it held.
ReaderRead ==
  /\ Alive /\ r_pc = "read" /\ ptyOut # <<>>
  /\ \E n \in 1..Min(Len(ptyOut), TempSize) :
       /\ temp' = SubSeq(ptyOut, 1, n) \o SubSeq(temp, n + 1, Len(temp))
       /\ rn' = n
       /\ ptyOut' = SubSeq(ptyOut, n + 1, Len(ptyOut))
       /\ readSoFar' = readSoFar \o SubSeq(ptyOut, 1, n)
  /\ lastRead' = "ok"
  /\ r_pc' = "lock"
  /\ UNCHANGED <<flushVars, mainVars, lock, chan, exitCode, ptyIn, shell_pc, shellPending,
                 nextByte, inputVars, fixedVars, processed, callObs, sendObs, burstAge, flushObs>>

\* Ok(_) => break: a read of 0 bytes ends the thread, nothing else.
ReaderReadEof ==
  /\ Alive /\ r_pc = "read" /\ ptyOut = <<>> /\ shell_pc = "exited"
  /\ lastRead' = "eof"
  /\ r_pc' = "done"
  /\ UNCHANGED <<temp, rn, flushVars, mainVars, lock, chan, exitCode, ptyVars,
                 inputVars, fixedVars, readSoFar, processed, callObs, sendObs, burstAge,
                 flushObs>>

EioExitCode_AsError == ExitErr

EioExitCode == ExitOk
OtherErrExitCode == ExitErr

\* Err(Errno::EIO) => process::exit(0)
ReaderReadEio ==
  /\ Alive /\ r_pc = "read" /\ ptyOut = <<>> /\ shell_pc = "exited"
  /\ lastRead' = "eio"
  /\ Exit(EioExitCode)
  /\ UNCHANGED <<readSoFar, processed, callObs, sendObs, burstAge, flushObs>>

\* Err(e) => { eprintln!(..); process::exit(1) }: any other errno, at any read.
ReaderReadErr ==
  /\ Alive /\ r_pc = "read"
  /\ lastRead' = "err"
  /\ Exit(OtherErrExitCode)
  /\ UNCHANGED <<readSoFar, processed, callObs, sendObs, burstAge, flushObs>>

\* terminal_clone.lock().unwrap()
ReaderLock ==
  /\ Alive /\ r_pc = "lock" /\ lock = "none"
  /\ lock' = "reader"
  /\ r_pc' = "process"
  /\ UNCHANGED <<temp, rn, flushVars, mainVars, chan, exitCode, ptyVars, inputVars,
                 fixedVars, readObs, callObs, sendObs, burstAge, flushObs>>

\* Mutant: &temp[..n - 1]
ProcessSlice_OneShort(buf, n) == SubSeq(buf, 1, n - 1)

\* The slice handed to process(): &temp[..n]
ProcessSlice(buf, n) == SubSeq(buf, 1, n)

\* .process(&temp[..n]); the engine may answer through the byte sink before it
\* returns.  The guard is dropped at the end of the statement.
ReaderProcess ==
  /\ Alive /\ r_pc = "process"
  /\ processed' = processed \o ProcessSlice(temp, rn)
  /\ \E reply \in BOOLEAN :
       IF reply THEN r_pc' = "write" /\ lock' = lock
       ELSE r_pc' = "send" /\ lock' = "none"
  /\ UNCHANGED <<temp, rn, flushVars, mainVars, chan, exitCode, ptyVars, inputVars,
                 fixedVars, readSoFar, lastRead, callObs, sendObs, burstAge, flushObs>>

\* write(master_writer, data) inside process(), the lock still held.
ReaderPtyWrite ==
  /\ Alive /\ r_pc = "write" /\ PtyWriteReady
  /\ ptyIn' = PtyWritten
  /\ r_pc' = "send" /\ lock' = "none"
  /\ UNCHANGED <<temp, rn, flushVars, mainVars, chan, exitCode, ptyOut, shell_pc,
                 shellPending, nextByte, inputVars, fixedVars, readObs, callObs, sendObs,
                 burstAge, flushObs>>

\* if flush_sender_clone.send(()).is_err() { break; }: send fails only when
\* the receiver is gone.
ReaderSend ==
  /\ Alive /\ r_pc = "send"
  /\ IF f_pc = "done"
       THEN r_pc' = "done" /\ UNCHANGED <<chan, sendObs>>
       ELSE r_pc' = "read" /\ Send
  /\ UNCHANGED <<temp, rn, flushVars, mainVars, lock, exitCode, ptyVars, inputVars,
                 fixedVars, readObs, callObs, burstAge, flushObs>>

\* ---------------------------------------------------------------------------
\* Flush driver thread (main.rs 102-122)
\* ---------------------------------------------------------------------------

\* if flush_receiver.recv().is_err() { break; }: blocks for one token.  The
\* senders live as long as the process, so recv never fails.
FlushRecv ==
  /\ Alive /\ f_pc = "recv" /\ chan > 0
  /\ chan' = chan - 1
  /\ f_pc' = "now"
  /\ UNCHANGED <<lastFlushAge, sleepLeft, readerVars, mainVars, lock, exitCode,
                 ptyVars, inputVars, fixedVars, readObs, callObs, sendObs, burstAge,
                 flushObs>>

\* Mutant: thread::sleep(elapsed)
SleepFor_Elapsed(elapsed) == elapsed

\* frame_interval - elapsed
SleepFor(elapsed) == FrameInterval - elapsed

\* let elapsed = now.duration_since(last_flush);
\* if elapsed < frame_interval { thread::sleep(frame_interval - elapsed); }
FlushNow ==
  /\ Alive /\ f_pc = "now"
  /\ IF lastFlushAge < FrameInterval
       THEN sleepLeft' = SleepFor(lastFlushAge) /\ f_pc' = "sleep"
       ELSE sleepLeft' = 0 /\ f_pc' = "drain"
  /\ UNCHANGED <<lastFlushAge, readerVars, mainVars, lock, chan, exitCode, ptyVars,
                 inputVars, fixedVars, readObs, callObs, sendObs, burstAge, flushObs>>

\* thread::sleep returns once at least the requested time has passed.
FlushWake ==
  /\ Alive /\ f_pc = "sleep" /\ sleepLeft <= 0
  /\ f_pc' = "drain"
  /\ UNCHANGED <<lastFlushAge, sleepLeft, readerVars, mainVars, lock, chan, exitCode,
                 ptyVars, inputVars, fixedVars, readObs, callObs, sendObs, burstAge,
                 flushObs>>

\* Mutant: the drain loop is missing.
FlushDrain_Missing ==
  /\ Alive /\ f_pc = "drain"
  /\ f_pc' = "lock"
  /\ firstDrainSends' = IF nFlushes = 0 THEN nSends ELSE firstDrainSends
  /\ UNCHANGED <<lastFlushAge, sleepLeft, readerVars, mainVars, lock, chan, exitCode,
                 ptyVars, inputVars, fixedVars, readObs, callObs, sendObs, burstAge,
                 nFlushes, sinceFlushStart, flushGap>>

\* while let Ok(_) = flush_receiver.try_recv() {}: one try_recv per step; the
\* loop ends at the first try_recv that finds the channel empty.
FlushDrain ==
  /\ Alive /\ f_pc = "drain"
  /\ IF chan > 0
       THEN chan' = chan - 1 /\ f_pc' = "drain" /\ UNCHANGED firstDrainSends
       ELSE /\ chan' = chan /\ f_pc' = "lock"
            /\ firstDrainSends' = IF nFlushes = 0 THEN nSends ELSE firstDrainSends
  /\ UNCHANGED <<lastFlushAge, sleepLeft, readerVars, mainVars, lock, exitCode,
                 ptyVars, inputVars, fixedVars, readObs, callObs, sendObs, burstAge,
                 nFlushes, sinceFlushStart, flushGap>>

\* Mutant: flush() is called without waiting for the lock.
FlushLock_NoWait ==
  /\ Alive /\ f_pc = "lock"
  /\ lock' = "flush"
  /\ f_pc' = "flush"
  /\ nFlushes' = nFlushes + 1
  /\ flushGap' = IF nFlushes = 0 THEN FrameInterval ELSE sinceFlushStart
  /\ sinceFlushStart' = 0
  /\ UNCHANGED <<lastFlushAge, sleepLeft, readerVars, mainVars, chan, exitCode,
                 ptyVars, inputVars, fixedVars, readObs, callObs, sendObs, burstAge,
                 firstDrainSends>>

\* terminal_clone.lock().unwrap(): flush() starts once the lock is held.
FlushLock ==
  /\ Alive /\ f_pc = "lock" /\ lock = "none"
  /\ lock' = "flush"
  /\ f_pc' = "flush"
  /\ nFlushes' = nFlushes + 1
  /\ flushGap' = IF nFlushes = 0 THEN FrameInterval ELSE sinceFlushStart
  /\ sinceFlushStart' = 0
  /\ UNCHANGED <<lastFlushAge, sleepLeft, readerVars, mainVars, chan, exitCode,
                 ptyVars, inputVars, fixedVars, readObs, callObs, sendObs, burstAge,
                 firstDrainSends>>

\* Mutant: the guard is kept in a variable that lives to the end of the loop
\* body; the lock is released after last_flush is stamped.
FlushFlush_KeepsGuard ==
  /\ Alive /\ f_pc = "flush"
  /\ f_pc' = "stamp"
  /\ UNCHANGED <<lastFlushAge, sleepLeft, readerVars, mainVars, lock, chan, exitCode,
                 ptyVars, inputVars, fixedVars, readObs, callObs, sendObs, burstAge,
                 flushObs>>

\* .flush(); the guard is dropped at the end of the statement.
FlushFlush ==
  /\ Alive /\ f_pc = "flush"
  /\ lock' = "none"
  /\ f_pc' = "stamp"
  /\ UNCHANGED <<lastFlushAge, sleepLeft, readerVars, mainVars, chan, exitCode,
                 ptyVars, inputVars, fixedVars, readObs, callObs, sendObs, burstAge,
                 flushObs>>

\* last_flush = Instant::now();
FlushStamp ==
  /\ Alive /\ f_pc = "stamp"
  /\ lastFlushAge' = 0
  /\ f_pc' = "recv"
  /\ UNCHANGED <<sleepLeft, readerVars, mainVars, lock, chan, exitCode, ptyVars,
                 inputVars, fixedVars, readObs, callObs, sendObs, burstAge, flushObs>>

\* ---------------------------------------------------------------------------
\* Main thread: the input polling loop (main.rs 124-169)
\* ---------------------------------------------------------------------------

\* Observation: setup step `step` failed; how many of the two threads
\* (main.rs 65, 102) had been spawned by then.
SetupFailed(step) ==
  [step |-> step,
   threads |-> (IF r_pc = "unborn" THEN 0 ELSE 1) + (IF f_pc = "unborn" THEN 0 ELSE 1)]

\* Device::open("/dev/input/event0")?  and  Device::open("/dev/input/event1").ok():
\* a failed keyboard open makes main return Err; the mouse is optional.
MainOpen ==
  /\ Alive /\ m_pc = "open"
  /\ \E kbdOk \in BOOLEAN, mouseOk \in BOOLEAN :
       IF kbdOk
         THEN /\ m_pc' = "kfetch" /\ mousePresent' = mouseOk
              /\ UNCHANGED <<kbatch, scancode, mbatch, mvalue, readerVars, flushVars,
                             lock, chan, exitCode, ptyVars, inputVars, fixedVars,
                             setupErr>>
         ELSE Exit(ExitErr) /\ setupErr' = SetupFailed("input")
  /\ UNCHANGED <<readObs, kcalls, mcalls, sendObs, burstAge, flushObs>>

\* kbd_evdev.fetch_events()?: a blocking read that returns the queued events.
MainKbdFetch ==
  /\ Alive /\ m_pc = "kfetch" /\ kbdQ # <<>>
  /\ kbatch' = kbdQ
  /\ kbdQ' = <<>>
  /\ m_pc' = "kloop"
  /\ UNCHANGED <<mousePresent, scancode, mbatch, mvalue, readerVars, flushVars, lock,
                 chan, exitCode, ptyVars, mouseQ, nEvents, fixedVars, readObs,
                 callObs, sendObs, burstAge, flushObs>>

\* fetch_events()? on an Err: main returns the error and the process ends.
MainFetchErr ==
  /\ Alive /\ m_pc \in {"kfetch", "mfetch"}
  /\ Exit(ExitErr)
  /\ UNCHANGED <<readObs, callObs, sendObs, burstAge, flushObs>>

\* Mutant: only events that are no key events are skipped.
Skipped_OnlyNonKey(ev) == ev.kind # "key"

\* let EventSummary::Key(..) = event.destructure() else { continue };
\* let Ok(keymap) = KeyMap::from_key_mapping(key) else { continue };
Skipped(ev) == ev.kind # "key" \/ ev.win = NoMap

\* One turn of `for event in kbd_evdev.fetch_events()?` up to the lock
\* (main.rs 127-140): non-key events and unmapped keys are skipped; after the
\* last event the loop goes on to the mouse, or back to the keyboard when
\* there is no mouse (`continue`, main.rs 152-154).
MainKbdNext ==
  /\ Alive /\ m_pc = "kloop"
  /\ LET rest == <<mousePresent, mbatch, mvalue, readerVars, flushVars, lock, chan,
                   exitCode, ptyVars, inputVars, fixedVars>> IN
     IF kbatch = <<>>
       THEN /\ m_pc' = IF mousePresent THEN "mfetch" ELSE "kfetch"
            /\ UNCHANGED <<kbatch, scancode, kcalls, rest>>
       ELSE LET ev == Head(kbatch) IN
            IF Skipped(ev)
              THEN /\ kbatch' = Tail(kbatch) /\ m_pc' = "kloop"
                   /\ UNCHANGED <<scancode, kcalls, rest>>
              ELSE \E sc \in Adjusted(ev.win, ev.value) :
                     IF sc = Panic
                       THEN Exit(ExitPanic) /\ UNCHANGED kcalls
                       ELSE /\ kbatch' = Tail(kbatch)
                            /\ scancode' = sc
                            /\ kcalls' = Append(kcalls, [win |-> ev.win,
                                                         value |-> ev.value,
                                                         code |-> sc,
                                                         calls |-> <<>>])
                            /\ m_pc' = "klock"
                            /\ UNCHANGED rest
  /\ UNCHANGED <<readObs, mcalls, setupErr, sendObs, burstAge, flushObs>>

\* Observation: the handle_keyboard calls `cs` are made for the key event now
\* being handled, the last one of the log.
Called(log, cs) == [log EXCEPT ![Len(log)].calls = @ \o cs]

\* let mut term = terminal.lock().unwrap();
MainKbdLock ==
  /\ Alive /\ m_pc = "klock" /\ lock = "none"
  /\ lock' = "main"
  /\ m_pc' = "kpre"
  /\ UNCHANGED <<mousePresent, kbatch, scancode, mbatch, mvalue, readerVars, flushVars,
                 chan, exitCode, ptyVars, inputVars, fixedVars, readObs, callObs, sendObs,
                 burstAge, flushObs>>

\* Mutant: the lock is taken for each handle_keyboard call and given back
\* after it.
MainKbdPrefix_DropsGuard ==
  /\ Alive /\ m_pc = "kpre"
  /\ kcalls' = Called(kcalls, PrefixCalls(scancode))
  /\ scancode' = AfterPrefix(scancode)
  /\ m_pc' = "kbyte"
  /\ lock' = "none"
  /\ UNCHANGED <<mousePresent, kbatch, mbatch, mvalue, readerVars, flushVars,
                 chan, exitCode, ptyVars, inputVars, fixedVars, readObs, mcalls, setupErr,
                 sendObs, burstAge, flushObs>>

\* if scancode >= 0xe000 { term.handle_keyboard(0xe0); scancode -= 0xe000; }
MainKbdPrefix ==
  /\ Alive /\ m_pc = "kpre"
  /\ kcalls' = Called(kcalls, PrefixCalls(scancode))
  /\ scancode' = AfterPrefix(scancode)
  /\ m_pc' = "kbyte"
  /\ UNCHANGED <<mousePresent, kbatch, mbatch, mvalue, readerVars, flushVars, lock,
                 chan, exitCode, ptyVars, inputVars, fixedVars, readObs, mcalls, setupErr, sendObs,
                 burstAge, flushObs>>

\* term.handle_keyboard(scancode as u8); the engine may emit the key's bytes
\* through the byte sink before it returns.
MainKbdByte ==
  /\ Alive /\ m_pc = "kbyte"
  /\ kcalls' = Called(kcalls, <<AsU8(scancode)>>)
  /\ \E reply \in BOOLEAN : m_pc' = IF reply THEN "kwrite" ELSE "ksend"
  /\ UNCHANGED <<mousePresent, kbatch, scancode, mbatch, mvalue, readerVars, flushVars,
                 lock, chan, exitCode, ptyVars, inputVars, fixedVars, readObs, mcalls, setupErr,
                 sendObs, burstAge, flushObs>>

\* write(master_writer, data) inside handle_keyboard(), the lock still held.
MainKbdPtyWrite ==
  /\ Alive /\ m_pc = "kwrite" /\ PtyWriteReady
  /\ ptyIn' = PtyWritten
  /\ m_pc' = "ksend"
  /\ UNCHANGED <<mousePresent, kbatch, scancode, mbatch, mvalue, readerVars, flushVars,
                 lock, chan, exitCode, ptyOut, shell_pc, shellPending, nextByte, inputVars,
                 fixedVars, readObs, callObs, sendObs, burstAge, flushObs>>

\* let _ = flush_sender.send(()); then `term` goes out of scope at the end of
\* the loop body and the lock is released.
MainKbdSend ==
  /\ Alive /\ m_pc = "ksend"
  /\ Send
  /\ lock' = "none"
  /\ m_pc' = "kloop"
  /\ UNCHANGED <<mousePresent, kbatch, scancode, mbatch, mvalue, readerVars, flushVars,
                 exitCode, ptyVars, inputVars, fixedVars, readObs, callObs, burstAge,
                 flushObs>>

\* mouse_evdev.fetch_events()?: a blocking read that returns the queued events.
MainMouseFetch ==
  /\ Alive /\ m_pc = "mfetch" /\ mouseQ # <<>>
  /\ mbatch' = mouseQ
  /\ mouseQ' = <<>>
  /\ m_pc' = "mloop"
  /\ UNCHANGED <<mousePresent, kbatch, scancode, mvalue, readerVars, flushVars, lock,
                 chan, exitCode, ptyVars, kbdQ, nEvents, fixedVars, readObs,
                 callObs, sendObs, burstAge, flushObs>>

\* One turn of `for event in mouse_evdev.fetch_events()?` up to the lock
\* (main.rs 156-161): only REL_WHEEL events go on; after the last event the
\* outer loop starts again at the keyboard.
MainMouseNext ==
  /\ Alive /\ m_pc = "mloop"
  /\ IF mbatch = <<>>
       THEN m_pc' = "kfetch" /\ UNCHANGED <<mbatch, mvalue>>
       ELSE LET ev == Head(mbatch) IN
            /\ mbatch' = Tail(mbatch)
            /\ IF ev.kind = "wheel"
                 THEN mvalue' = ev.value /\ m_pc' = "mlock"
                 ELSE mvalue' = mvalue /\ m_pc' = "mloop"
  /\ UNCHANGED <<mousePresent, kbatch, scancode, readerVars, flushVars, lock, chan,
                 exitCode, ptyVars, inputVars, fixedVars, readObs, callObs, sendObs,
                 burstAge, flushObs>>

\* terminal.lock().unwrap()
MainMouseLock ==
  /\ Alive /\ m_pc = "mlock" /\ lock = "none"
  /\ lock' = "main"
  /\ m_pc' = "mcall"
  /\ UNCHANGED <<mousePresent, kbatch, scancode, mbatch, mvalue, readerVars, flushVars,
                 chan, exitCode, ptyVars, inputVars, fixedVars, readObs, callObs, sendObs,
                 burstAge, flushObs>>

\* Mutant: value as i8 as isize
AsIsize_ThroughI8(v) == LET low == v % U8 IN IF low >= ReleaseBias THEN low - U8 ELSE low

\* value as isize: an i32 is sign-extended when isize has at least 32 bits
\* and cut down to the low bits, read as a signed number, when it has fewer.
AsIsize(v) ==
  IF IsizeBits >= I32Bits THEN v
  ELSE LET m == 2 ^ IsizeBits
           low == v % m
       IN IF low >= m \div 2 THEN low - m ELSE low

\* .handle_mouse(MouseInput::Scroll(value as isize)); the guard is dropped at
\* the end of the statement.
MainMouseCall ==
  /\ Alive /\ m_pc = "mcall"
  /\ mcalls' = Append(mcalls, AsIsize(mvalue))
  /\ \E reply \in BOOLEAN :
       IF reply THEN m_pc' = "mwrite" /\ lock' = lock
       ELSE m_pc' = "msend" /\ lock' = "none"
  /\ UNCHANGED <<mousePresent, kbatch, scancode, mbatch, mvalue, readerVars, flushVars,
                 chan, exitCode, ptyVars, inputVars, fixedVars, readObs, kcalls, setupErr, sendObs,
                 burstAge, flushObs>>

\* write(master_writer, data) inside handle_mouse(), the lock still held.
MainMousePtyWrite ==
  /\ Alive /\ m_pc = "mwrite" /\ PtyWriteReady
  /\ ptyIn' = PtyWritten
  /\ m_pc' = "msend" /\ lock' = "none"
  /\ UNCHANGED <<mousePresent, kbatch, scancode, mbatch, mvalue, readerVars, flushVars,
                 chan, exitCode, ptyOut, shell_pc, shellPending, nextByte, inputVars, fixedVars,
                 readObs, callObs, sendObs, burstAge, flushObs>>

\* let _ = flush_sender.send(());
MainMouseSend ==
  /\ Alive /\ m_pc = "msend"
  /\ Send
  /\ m_pc' = "mloop"
  /\ UNCHANGED <<mousePresent, kbatch, scancode, mbatch, mvalue, readerVars, flushVars,
                 lock, exitCode, ptyVars, inputVars, fixedVars, readObs, callObs, burstAge,
                 flushObs>>

\* ---------------------------------------------------------------------------
\* The kernel side: the shell on the slave end of the pty, the input devices,
\* the clock.
\* ---------------------------------------------------------------------------

\* The shell starts a blocking write of k bytes to its terminal.
ShellWrite ==
  /\ Alive /\ shell_pc = "idle" /\ nEvents < limits.events
  /\ \E k \in 1..limits.wlen : shellPending' = k
  /\ shell_pc' = "writing"
  /\ nEvents' = nEvents + 1
  /\ UNCHANGED <<readerVars, flushVars, mainVars, lock, chan, exitCode, ptyOut, ptyIn,
                 nextByte, kbdQ, mouseQ, fixedVars, readObs, callObs, sendObs, burstAge,
                 flushObs>>

\* The pty takes the next byte of the write when it has room for it;
\* read(master) will return it (main.rs 68).  The write returns, and the shell
\* can do something else, once all its bytes are taken.
ShellWriteByte ==
  /\ Alive /\ shell_pc = "writing" /\ Len(ptyOut) < PtyOutCap
  /\ ptyOut' = Append(ptyOut, nextByte)
  /\ nextByte' = nextByte + 1
  /\ shellPending' = shellPending - 1
  /\ shell_pc' = IF shellPending = 1 THEN "idle" ELSE "writing"
  /\ UNCHANGED <<readerVars, flushVars, mainVars, lock, chan, exitCode, ptyIn,
                 inputVars, fixedVars, readObs, callObs, sendObs, burstAge, flushObs>>

\* The shell, when it is not writing, reads what write(master) queued
\* (main.rs 42).
ShellRead ==
  /\ Alive /\ shell_pc = "idle" /\ ptyIn > 0
  /\ ptyIn' = ptyIn - 1
  /\ UNCHANGED <<readerVars, flushVars, mainVars, lock, chan, exitCode, ptyOut,
                 shell_pc, shellPending, nextByte, inputVars, fixedVars, readObs, callObs,
                 sendObs, burstAge, flushObs>>

\* The shell exits; the slave side closes.  read(master) then fails with EIO
\* or returns 0, depending on the kernel (main.rs 75-76).
ShellExit ==
  /\ Alive /\ shell_pc = "idle"
  /\ shell_pc' = "exited"
  /\ UNCHANGED <<readerVars, flushVars, mainVars, lock, chan, exitCode, ptyOut, ptyIn,
                 shellPending, nextByte, inputVars, fixedVars, readObs, callObs, sendObs,
                 burstAge, flushObs>>

\* The keyboard queues an event for fetch_events (main.rs 127).
KeyArrives ==
  /\ Alive /\ m_pc # "open" /\ nEvents < limits.events
  /\ \E ev \in KeyEvents : kbdQ' = Append(kbdQ, ev)
  /\ nEvents' = nEvents + 1
  /\ UNCHANGED <<readerVars, flushVars, mainVars, lock, chan, exitCode, ptyVars,
                 mouseQ, fixedVars, readObs, callObs, sendObs, burstAge, flushObs>>

\* The mouse queues an event for fetch_events (main.rs 156).
MouseArrives ==
  /\ Alive /\ m_pc # "open" /\ mousePresent /\ nEvents < limits.events
  /\ \E ev \in MouseEvents : mouseQ' = Append(mouseQ, ev)
  /\ nEvents' = nEvents + 1
  /\ UNCHANGED <<readerVars, flushVars, mainVars, lock, chan, exitCode, ptyVars,
                 kbdQ, fixedVars, readObs, callObs, sendObs, burstAge, flushObs>>

\* An age grows by one step of the clock and saturates at FrameInterval.
Older(age) == Min(age + TickStep, FrameInterval)

\* Time passes: every Instant taken (main.rs 103, 111, 120) gets older and a
\* running thread::sleep (main.rs 114) gets closer to its end.
Tick ==
  /\ Alive
  /\ lastFlushAge' = Older(lastFlushAge)
  /\ sleepLeft' = Max(sleepLeft - TickStep, 0)
  /\ burstAge' = IF nSends > 0 THEN Older(burstAge) ELSE burstAge
  /\ sinceFlushStart' = IF nFlushes > 0 THEN Older(sinceFlushStart) ELSE sinceFlushStart
  /\ UNCHANGED <<f_pc, readerVars, mainVars, lock, chan, exitCode, ptyVars, inputVars,
                 fixedVars, readObs, callObs, sendObs, nFlushes, firstDrainSends, flushGap>>

ReaderStep ==
  \/ ReaderRead \/ ReaderLock \/ ReaderProcess \/ ReaderPtyWrite \/ ReaderSend

FlushStep ==
  \/ FlushRecv \/ FlushNow \/ FlushWake \/ FlushDrain \/ FlushLock \/ FlushFlush
  \/ FlushStamp

MainStep ==
  \/ MainKbdFetch \/ MainKbdNext \/ MainKbdLock \/ MainKbdPrefix \/ MainKbdByte
  \/ MainKbdPtyWrite \/ MainKbdSend
  \/ MainMouseFetch \/ MainMouseNext \/ MainMouseLock \/ MainMouseCall
  \/ MainMousePtyWrite \/ MainMouseSend

Next ==
  \/ ReaderRead \/ ReaderReadEof \/ ReaderReadEio \/ ReaderReadErr
  \/ ReaderLock \/ ReaderProcess \/ ReaderPtyWrite \/ ReaderSend
  \/ FlushRecv \/ FlushNow \/ FlushWake \/ FlushDrain \/ FlushLock \/ FlushFlush
  \/ FlushStamp
  \/ MainOpen \/ MainFetchErr
  \/ MainKbdFetch \/ MainKbdNext \/ MainKbdLock \/ MainKbdPrefix \/ MainKbdByte
  \/ MainKbdPtyWrite \/ MainKbdSend
  \/ MainMouseFetch \/ MainMouseNext \/ MainMouseLock \/ MainMouseCall
  \/ MainMousePtyWrite \/ MainMouseSend
  \/ ShellWrite \/ ShellWriteByte \/ ShellRead \/ ShellExit
  \/ KeyArrives \/ MouseArrives \/ Tick

Spec == Init /\ [][Next]_vars

\* ---------------------------------------------------------------------------
\* TimedSpec: the flush driver with the PTY reader and the keyboard poller as
\* the producers of redraw signals, in a session that runs on (the keyboard
\* is open, there is no mouse, no read fails and the shell does not exit).
\* Its initial state is the state of Spec after MainOpen found a keyboard and
\* no mouse; its steps are steps of Spec.
\* ---------------------------------------------------------------------------
TimedLimits == [events |-> TimedEvents, wlen |-> 1]

InitKeyboardOnly ==
  /\ r_pc = "read" /\ temp = <<>> /\ rn = 0
  /\ f_pc = "recv" /\ lastFlushAge = 0 /\ sleepLeft = 0
  /\ m_pc = "kfetch" /\ mousePresent = FALSE /\ kbatch = <<>> /\ scancode = 0
  /\ mbatch = <<>> /\ mvalue = 0
  /\ lock = "none" /\ chan = 0 /\ exitCode = Running
  /\ ptyOut = <<>> /\ ptyIn = 0 /\ shell_pc = "idle" /\ shellPending = 0
  /\ nextByte = 1
  /\ kbdQ = <<>> /\ mouseQ = <<>> /\ nEvents = 0
  /\ readSoFar = <<>> /\ processed = <<>> /\ lastRead = "none"
  /\ kcalls = <<>> /\ mcalls = <<>>
  /\ nSends = 0 /\ inWindow = TRUE /\ burstAge = 0
  /\ nFlushes = 0 /\ firstDrainSends = -1 /\ sinceFlushStart = 0
  /\ flushGap = FrameInterval
  /\ SetupDone

TimedInit == InitKeyboardOnly /\ InitDisplay /\ limits = TimedLimits

TimedNext ==
  \/ ReaderRead \/ ReaderLock \/ ReaderProcess \/ ReaderPtyWrite \/ ReaderSend
  \/ FlushRecv \/ FlushNow \/ FlushWake \/ FlushDrain \/ FlushLock \/ FlushFlush
  \/ FlushStamp
  \/ MainKbdFetch \/ MainKbdNext \/ MainKbdLock \/ MainKbdPrefix \/ MainKbdByte
  \/ MainKbdPtyWrite \/ MainKbdSend
  \/ ShellWrite \/ ShellWriteByte \/ ShellRead
  \/ KeyArrives \/ Tick

TimedSpec == TimedInit /\ [][TimedNext]_vars

\* ---------------------------------------------------------------------------
\* FairSpec: Spec with the scheduling the platform gives.  Every thread that
\* can take a step eventually takes it (the OS scheduler is fair to runnable
\* threads), time passes, the kernel moves the bytes of a blocked write into
\* the pty as soon as there is room, and a shell that is not writing
\* eventually reads its input.  Nothing obliges the user to type, the mouse
\* to move, the shell to write or exit, or a system call to fail.
\* ---------------------------------------------------------------------------
FairLimits == [events |-> FairEvents, wlen |-> 1]

FairInit == InitProgram /\ limits = FairLimits

Fairness ==
  /\ WF_vars(ReaderStep)
  /\ WF_vars(FlushStep)
  /\ WF_vars(MainOpen \/ MainStep)
  /\ WF_vars(Tick)
  /\ WF_vars(ShellWriteByte)
  /\ WF_vars(ShellRead)

FairSpec == FairInit /\ [][Next]_vars /\ Fairness

\* BlockSpec: the session without a mouse (Device::open of event1 failed),
\* with a shell whose writes are long enough to fill the pty (cat of a file,
\* say), under the same scheduling.  Its initial state is the state of Spec
\* after MainOpen found a keyboard and no mouse; its steps are the steps of
\* Spec that such a session can take, failures and the shell's exit included.
BlockLimits == [events |-> BlockEvents, wlen |-> BlockWrite]

BlockInit == InitKeyboardOnly /\ InitDisplay /\ limits = BlockLimits

BlockNext ==
  \/ ReaderRead \/ ReaderReadEof \/ ReaderReadEio \/ ReaderReadErr
  \/ ReaderLock \/ ReaderProcess \/ ReaderPtyWrite \/ ReaderSend
  \/ FlushRecv \/ FlushNow \/ FlushWake \/ FlushDrain \/ FlushLock \/ FlushFlush
  \/ FlushStamp
  \/ MainKbdFetch \/ MainFetchErr \/ MainKbdNext \/ MainKbdLock
  \/ MainKbdPrefix \/ MainKbdByte \/ MainKbdPtyWrite \/ MainKbdSend
  \/ ShellWrite \/ ShellWriteByte \/ ShellRead \/ ShellExit
  \/ KeyArrives \/ Tick

BlockSpec == BlockInit /\ [][BlockNext]_vars /\ Fairness

\* ---------------------------------------------------------------------------
\* KeySpec: the keyboard translation (main.rs 127-150) on every 16-bit value
\* of keymap.win.  The initial states are states of the running session in
\* which fetch_events has just returned the press and the release of one key;
\* the steps are the main thread's, and the shell's reading of what the byte
\* sink wrote.
\* ---------------------------------------------------------------------------
KeyLimits == [events |-> 0, wlen |-> 1]

KeyInit ==
  /\ r_pc = "read" /\ temp = <<>> /\ rn = 0
  /\ f_pc = "recv" /\ lastFlushAge = 0 /\ sleepLeft = 0
  /\ m_pc = "kloop" /\ mousePresent = FALSE /\ scancode = 0
  /\ \E w \in 0..(U16 - 1) :
       kbatch = << [kind |-> "key", win |-> w, value |-> 1],
                   [kind |-> "key", win |-> w, value |-> 0] >>
  /\ mbatch = <<>> /\ mvalue = 0
  /\ lock = "none" /\ chan = 0 /\ exitCode = Running
  /\ ptyOut = <<>> /\ ptyIn = 0 /\ shell_pc = "idle" /\ shellPending = 0
  /\ nextByte = 1
  /\ kbdQ = <<>> /\ mouseQ = <<>> /\ nEvents = 0
  /\ readSoFar = <<>> /\ processed = <<>> /\ lastRead = "none"
  /\ kcalls = <<>> /\ mcalls = <<>>
  /\ nSends = 0 /\ inWindow = TRUE /\ burstAge = 0
  /\ nFlushes = 0 /\ firstDrainSends = -1 /\ sinceFlushStart = 0
  /\ flushGap = FrameInterval
  /\ InitDisplay /\ SetupDone
  /\ limits = KeyLimits

KeyNext ==
  \/ MainKbdNext \/ MainKbdLock \/ MainKbdPrefix \/ MainKbdByte
  \/ MainKbdPtyWrite \/ MainKbdSend \/ ShellRead

KeySpec == KeyInit /\ [][KeyNext]_vars

\* ---------------------------------------------------------------------------
\* Setup (main.rs 25-102): the main thread from forkpty to the second
\* thread::spawn, and the child from fork to exec.  Before the fork there is
\* no child (shell_pc = "none"); before its spawn a thread is "unborn".
\* ---------------------------------------------------------------------------
\* Mutant: the PTY reader is spawned before the window size is set.
AfterSetup_ReaderFirst(pc) ==
  CASE pc = "fork" -> "display"
    [] pc = "display" -> "configure"
    [] pc = "configure" -> "spawn_reader"
    [] pc = "spawn_reader" -> "winsize"
    [] pc = "winsize" -> "vt"
    [] pc = "vt" -> "spawn_flush"
    [] pc = "spawn_flush" -> "open"

\* The order of main's statements: forkpty (25), Display::new (33),
\* Terminal::new and its configuration (34-48), TIOCSWINSZ (50-56), the reader
\* thread (58-83), the VT ioctls (94-99), the flush thread (101-122),
\* Device::open (124).
AfterSetup(pc) ==
  CASE pc = "fork" -> "display"
    [] pc = "display" -> "configure"
    [] pc = "configure" -> "winsize"
    [] pc = "winsize" -> "spawn_reader"
    [] pc = "spawn_reader" -> "vt"
    [] pc = "vt" -> "spawn_flush"
    [] pc = "spawn_flush" -> "open"

\* What a setup step of the main thread leaves alone, the variables it may
\* write apart.
setupRest ==
  <<mousePresent, kbatch, scancode, mbatch, mvalue, temp, rn, sleepLeft, lock, chan,
    ptyOut, ptyIn, shellPending, nextByte, inputVars, limits, endian, draws>>

setupObsRest == <<readObs, kcalls, mcalls, sendObs, burstAge, flushObs>>

\* forkpty(None, None)?: on Err main returns it; on Ok there is a child.
SetupFork ==
  /\ Alive /\ m_pc = "fork"
  /\ \E ok \in BOOLEAN :
       IF ok
         THEN /\ m_pc' = AfterSetup(m_pc) /\ shell_pc' = "exec"
              /\ UNCHANGED <<setupRest, exitCode, r_pc, f_pc, lastFlushAge, width,
                             height, map, nWinsz, setupErr>>
         ELSE Exit(ExitErr) /\ setupErr' = SetupFailed("fork")
  /\ UNCHANGED setupObsRest

\* The child: execvp(shell).  On failure the child's main returns the error
\* and the child is gone; the parent is not told.
ChildExec ==
  /\ Alive /\ shell_pc = "exec"
  /\ \E ok \in BOOLEAN : shell_pc' = IF ok THEN "idle" ELSE "exited"
  /\ UNCHANGED <<readerVars, flushVars, mainVars, lock, chan, exitCode, ptyOut, ptyIn,
                 shellPending, nextByte, inputVars, fixedVars, readObs, callObs,
                 sendObs, burstAge, flushObs>>

\* Display::new() (fbdev.rs 12-21): Framebuffer::new(..).expect(..) and
\* fb.map().expect(..) panic on failure; otherwise the Display holds the size
\* and the mapping.
SetupDisplay ==
  /\ Alive /\ m_pc = "display"
  /\ \E ok \in BOOLEAN :
       IF ok
         THEN /\ m_pc' = AfterSetup(m_pc)
              /\ width' = 1 /\ height' = 1 /\ map' = <<0, 0, 0, 0>>
              /\ UNCHANGED <<setupRest, exitCode, r_pc, f_pc, lastFlushAge, shell_pc,
                             nWinsz, setupErr>>
         ELSE Exit(ExitPanic) /\ setupErr' = SetupFailed("display")
  /\ UNCHANGED setupObsRest

\* Terminal::new and the setters (main.rs 34-48); master.try_clone()? for the
\* byte sink (main.rs 40) can fail.
SetupConfigure ==
  /\ Alive /\ m_pc = "configure"
  /\ \E ok \in BOOLEAN :
       IF ok
         THEN /\ m_pc' = AfterSetup(m_pc)
              /\ UNCHANGED <<setupRest, exitCode, r_pc, f_pc, lastFlushAge, shell_pc,
                             width, height, map, nWinsz, setupErr>>
         ELSE Exit(ExitErr) /\ setupErr' = SetupFailed("clone")
  /\ UNCHANGED setupObsRest

\* unsafe { ioctl(master, TIOCSWINSZ, &win_size) }: the result is not looked at.
SetupWinsize ==
  /\ Alive /\ m_pc = "winsize"
  /\ nWinsz' = nWinsz + 1
  /\ m_pc' = AfterSetup(m_pc)
  /\ UNCHANGED <<setupRest, exitCode, r_pc, f_pc, lastFlushAge, shell_pc, width,
                 height, map, setupErr, setupObsRest>>

\* The mutex and the channel are made (main.rs 58-60), master.try_clone()?
\* (main.rs 61) can fail, then thread::spawn starts the PTY reader.
SetupSpawnReader ==
  /\ Alive /\ m_pc = "spawn_reader"
  /\ \E ok \in BOOLEAN :
       IF ok
         THEN /\ m_pc' = AfterSetup(m_pc) /\ r_pc' = "read"
              /\ UNCHANGED <<setupRest, exitCode, f_pc, lastFlushAge, shell_pc, width,
                             height, map, nWinsz, setupErr>>
         ELSE Exit(ExitErr) /\ setupErr' = SetupFailed("clone")
  /\ UNCHANGED setupObsRest

\* ioctl(1, VT_GETMODE), vt.mode = 1, ioctl(1, VT_SETMODE): results not looked at.
SetupVt ==
  /\ Alive /\ m_pc = "vt"
  /\ m_pc' = AfterSetup(m_pc)
  /\ UNCHANGED <<setupRest, exitCode, r_pc, f_pc, lastFlushAge, shell_pc, width,
                 height, map, nWinsz, setupErr, setupObsRest>>

\* thread::spawn of the flush driver, which starts with
\* last_flush = Instant::now() (main.rs 103).
SetupSpawnFlush ==
  /\ Alive /\ m_pc = "spawn_flush"
  /\ m_pc' = AfterSetup(m_pc)
  /\ f_pc' = "recv" /\ lastFlushAge' = 0
  /\ UNCHANGED <<setupRest, exitCode, r_pc, shell_pc, width, height, map, nWinsz,
                 setupErr, setupObsRest>>

\* SetupSpec: the program from the first statement of main() to the opening
\* of the input devices, with the child, the shell's output and the two
\* threads as soon as they exist.
SetupLimits == [events |-> SetupEvents, wlen |-> 1]

SetupInit ==
  /\ r_pc = "unborn" /\ temp = <<>> /\ rn = 0
  /\ f_pc = "unborn" /\ lastFlushAge = 0 /\ sleepLeft = 0
  /\ m_pc = "fork" /\ mousePresent = FALSE /\ kbatch = <<>> /\ scancode = 0
  /\ mbatch = <<>> /\ mvalue = 0
  /\ lock = "none" /\ chan = 0 /\ exitCode = Running
  /\ ptyOut = <<>> /\ ptyIn = 0 /\ shell_pc = "none" /\ shellPending = 0
  /\ nextByte = 1
  /\ kbdQ = <<>> /\ mouseQ = <<>> /\ nEvents = 0
  /\ readSoFar = <<>> /\ processed = <<>> /\ lastRead = "none"
  /\ kcalls = <<>> /\ mcalls = <<>>
  /\ nSends = 0 /\ inWindow = TRUE /\ burstAge = 0
  /\ nFlushes = 0 /\ firstDrainSends = -1 /\ sinceFlushStart = 0
  /\ flushGap = FrameInterval
  /\ width = 0 /\ height = 0 /\ map = <<>> /\ endian = "little" /\ draws = <<>>
  /\ nWinsz = 0 /\ setupErr = NoSetupErr
  /\ limits = SetupLimits

SetupNext ==
  \/ SetupFork \/ SetupDisplay \/ SetupConfigure \/ SetupWinsize
  \/ SetupSpawnReader \/ SetupVt \/ SetupSpawnFlush \/ ChildExec \/ MainOpen
  \/ ReaderRead \/ ReaderLock \/ ReaderProcess \/ ReaderPtyWrite \/ ReaderSend
  \/ FlushRecv \/ FlushNow \/ FlushWake \/ FlushDrain \/ FlushLock \/ FlushFlush
  \/ FlushStamp
  \/ ShellWrite \/ ShellWriteByte \/ ShellRead \/ Tick

SetupSpec == SetupInit /\ [][SetupNext]_vars

\* ---------------------------------------------------------------------------
\* MouseSpec: the mouse translation (main.rs 156-168) on every batch of
\* MouseBatch events.  The initial states are states of the running session in
\* which fetch_events of the mouse has just returned the batch; the steps are
\* the main thread's, and the shell's reading of what the byte sink wrote.
\* ---------------------------------------------------------------------------
\* Wheel deltas, the ends of the i32 range among them; a relative-axis event
\* of another axis (REL_X); an event that is no relative-axis event (a button).
BatchEvents ==
  [kind : {"wheel"}, value : {MinI32, -1, 1, MaxI32}]
    \cup {[kind |-> "other", value |-> 5], [kind |-> "button", value |-> 1]}

MouseLimits == [events |-> 0, wlen |-> 1]

MouseInit ==
  /\ r_pc = "read" /\ temp = <<>> /\ rn = 0
  /\ f_pc = "recv" /\ lastFlushAge = 0 /\ sleepLeft = 0
  /\ m_pc = "mloop" /\ mousePresent = TRUE /\ kbatch = <<>> /\ scancode = 0
  /\ mbatch \in [1..MouseBatch -> BatchEvents] /\ mvalue = 0
  /\ lock = "none" /\ chan = 0 /\ exitCode = Running
  /\ ptyOut = <<>> /\ ptyIn = 0 /\ shell_pc = "idle" /\ shellPending = 0
  /\ nextByte = 1
  /\ kbdQ = <<>> /\ mouseQ = <<>> /\ nEvents = 0
  /\ readSoFar = <<>> /\ processed = <<>> /\ lastRead = "none"
  /\ kcalls = <<>> /\ mcalls = <<>>
  /\ nSends = 0 /\ inWindow = TRUE /\ burstAge = 0
  /\ nFlushes = 0 /\ firstDrainSends = -1 /\ sinceFlushStart = 0
  /\ flushGap = FrameInterval
  /\ InitDisplay /\ SetupDone
  /\ limits = MouseLimits

MouseNext ==
  \/ MainMouseNext \/ MainMouseLock \/ MainMouseCall \/ MainMousePtyWrite
  \/ MainMouseSend \/ ShellRead

MouseSpec == MouseInit /\ [][MouseNext]_vars

\* ---------------------------------------------------------------------------
\* The Display (fbdev.rs): draw_pixel, called by the engine from inside
\* flush() with the coordinates of a pixel of the display.
\* ---------------------------------------------------------------------------
\* Two colours with six different channel values.
Rgbs == {<<1, 2, 3>>, <<255, 128, 64>>}

\* (rgb.0 as u32) << 16 | (rgb.1 as u32) << 8 | rgb.2 as u32
Pixel(rgb) == rgb[1] * Shift16 + rgb[2] * Shift8 + rgb[3]

\* pixel.to_ne_bytes(): the four bytes in the byte order of the build.
ToNeBytes(pixel, order) ==
  LET le == << pixel % U8, (pixel \div Shift8) % U8, (pixel \div Shift16) % U8,
               (pixel \div Shift24) % U8 >>
  IN IF order = "little" THEN le ELSE <<le[4], le[3], le[2], le[1]>>

\* self.map.as_chunks_mut::<4>().0 : the whole 4-byte chunks of the mapping.
Chunks(m) == Len(m) \div PixelBytes

\* Mutant: buffer[x * self.width + y]
PixelIndex_Transposed(x, y, w) == x * w + y

\* buffer[y * self.width + x]
PixelIndex(x, y, w) == y * w + x

\* buffer[idx].copy_from_slice(&bytes)
StoreChunk(m, idx, bytes) ==
  [i \in 1..Len(m) |->
     IF idx * PixelBytes < i /\ i <= idx * PixelBytes + PixelBytes
       THEN bytes[i - idx * PixelBytes]
       ELSE m[i]]

\* draw_pixel(x, y, rgb) during flush().  An index past the last chunk panics:
\* the flush driver ends and the mutex it holds is poisoned.
DrawPixel ==
  /\ Alive /\ f_pc = "flush" /\ Len(draws) < MaxDraws
  /\ \E x \in 0..(width - 1), y \in 0..(height - 1), rgb \in Rgbs :
       LET idx == PixelIndex(x, y, width) IN
       IF idx < Chunks(map)
         THEN /\ map' = StoreChunk(map, idx, ToNeBytes(Pixel(rgb), endian))
              /\ draws' = Append(draws, [x |-> x, y |-> y, rgb |-> rgb, before |-> map,
                                         after |-> map', ok |-> TRUE])
              /\ UNCHANGED <<f_pc, lock>>
         ELSE /\ draws' = Append(draws, [x |-> x, y |-> y, rgb |-> rgb, before |-> map,
                                         after |-> map, ok |-> FALSE])
              /\ f_pc' = "done" /\ lock' = "poisoned"
              /\ UNCHANGED map
  /\ UNCHANGED <<lastFlushAge, sleepLeft, readerVars, mainVars, chan, exitCode, ptyVars,
                 inputVars, limits, width, height, endian, nWinsz, readObs, callObs,
                 sendObs, burstAge, flushObs>>

\* DrawSpec: a session on a display of any size up to MaxWidth x MaxHeight
\* with 4 bytes per pixel, the mapping holding the visible rows and up to
\* MaxPad rows more, in either byte order; the shell writes once, the PTY
\* reader processes it, the flush driver flushes and the engine draws.
Zeros(n) == [i \in 1..n |-> 0]

DrawLimits == [events |-> 1, wlen |-> 1]

DrawInit ==
  /\ InitKeyboardOnly
  /\ width \in 1..MaxWidth /\ height \in 1..MaxHeight
  /\ \E pad \in 0..MaxPad : map = Zeros(width * (height + pad) * PixelBytes)
  /\ endian \in {"little", "big"}
  /\ draws = <<>>
  /\ limits = DrawLimits

DrawNext ==
  \/ ShellWrite \/ ShellWriteByte
  \/ ReaderRead \/ ReaderLock \/ ReaderProcess \/ ReaderPtyWrite \/ ReaderSend
  \/ FlushRecv \/ FlushNow \/ FlushWake \/ FlushDrain \/ FlushLock \/ FlushFlush
  \/ FlushStamp
  \/ DrawPixel \/ Tick

DrawSpec == DrawInit /\ [][DrawNext]_vars

\* ===========================================================================
\* Claims
\* ===========================================================================

Units == {"reader", "flush", "main"}

\* A unit is inside a mutating call on the terminal: process (with the byte
\* sink it may call), flush, handle_keyboard, handle_mouse.
InCall(u) ==
  CASE u = "reader" -> r_pc \in {"process", "write"}
    [] u = "flush" -> f_pc = "flush"
    [] u = "main" -> m_pc \in {"kpre", "kbyte", "kwrite", "mcall", "mwrite"}

\* C1: in every reachable state at most one of the PTY reader, the flush
\* driver and the input poller is inside a mutating call on the terminal.
C1_MutualExclusion == Cardinality({u \in Units : InCall(u)}) <= 1

\* C1 witness: the reader is inside process() while the flush driver waits
\* for the lock.
C1_Witness == InCall("reader") /\ f_pc = "lock"

\* C2 (as claimed): once the PTY read has returned 0 bytes the process has
\* terminated with exit code 0.
C2_EofExitsZero == lastRead = "eof" => exitCode = ExitOk

\* C3: a PTY read failing with EIO ends the process with code 0, one failing
\* with another error ends it with a nonzero code, and no process() call
\* follows the failing read.
C3_ReadFailureExits ==
  [][ /\ lastRead' = "eio" => exitCode' = ExitOk
      /\ lastRead' = "err" => exitCode' \notin {Running, ExitOk}
      /\ lastRead \in {"eio", "err"} => processed' = processed ]_vars

\* C3 witness: a read failed with EIO after some bytes had been processed.
C3_Witness == lastRead = "eio" /\ Len(processed) > 0 /\ exitCode = ExitOk

IsPrefix(a, b) == Len(a) <= Len(b) /\ a = SubSeq(b, 1, Len(a))

\* C8: the bytes passed to process() are, in order and without gap or
\* duplicate, the bytes the PTY reads returned: always a prefix of them, all
\* of them whenever a read is issued, and all but the chunk in hand between a
\* read and its process() call.
C8_NoPtyDataLost ==
  /\ IsPrefix(processed, readSoFar)
  /\ r_pc = "read" => processed = readSoFar
  /\ r_pc \in {"lock", "process"} =>
       processed = SubSeq(readSoFar, 1, Len(readSoFar) - rn)
  /\ r_pc \in {"write", "send"} => processed = readSoFar

\* C8 witness: a chunk of two bytes has been read and processed.
C8_Witness == r_pc = "send" /\ rn = 2 /\ processed = <<1, 2>>

\* Every redraw signal sent so far has been received and flushed, and no unit
\* is on its way to send another.
Quiescent ==
  /\ Alive /\ chan = 0 /\ f_pc = "recv"
  /\ r_pc \in {"read", "done"}
  /\ m_pc \in {"open", "kfetch", "kloop", "mfetch", "mloop"}

\* C4 (as claimed): N >= 1 redraw signals, all sent within less than one
\* frame interval of the first, cause exactly one flush().
C4_ExactlyOneFlush ==
  (Quiescent /\ nSends >= 1 /\ inWindow) => nFlushes = 1

\* C4 (amended): such signals cause one flush() or two; one when all of them
\* were sent before the driver's drain loop ended.
C4_OneOrTwoFlushes ==
  (Quiescent /\ nSends >= 1 /\ inWindow) =>
     /\ nFlushes \in {1, 2}
     /\ firstDrainSends = nSends => nFlushes = 1

\* C4 witness: three signals within one frame interval, one flush.
C4_Witness ==
  Quiescent /\ nSends = 3 /\ inWindow /\ firstDrainSends = 3 /\ nFlushes = 1

\* C5: a flush() starts no sooner than one frame interval after the flush()
\* before it started.
C5_FrameGap == nFlushes >= 2 => flushGap >= FrameInterval

\* C5 witness: a second flush() has started.
C5_Witness == nFlushes >= 2 /\ f_pc = "flush"

\* C6 (as claimed): every acquisition of the terminal lock is eventually
\* followed by its release.
C6_LockEventuallyReleased == (lock # "none") ~> (lock = "none")

\* A mappable key event is queued at the keyboard.
KeyPending ==
  \E i \in DOMAIN kbdQ : kbdQ[i].kind = "key" /\ kbdQ[i].win # NoMap

\* A wheel event is queued at the mouse.
WheelPending == \E i \in DOMAIN mouseQ : mouseQ[i].kind = "wheel"

\* C7 (as claimed): with a mouse present, a mappable key event that has
\* arrived is eventually taken from the keyboard, and a wheel event that has
\* arrived is eventually taken from the mouse, whatever the other device does.
C7_PollersIndependent ==
  /\ (mousePresent /\ KeyPending) ~> ~KeyPending
  /\ WheelPending ~> ~WheelPending

\* The handle_keyboard calls of the i-th mapped key event have all been made.
KeyDone(i) == i < Len(kcalls) \/ m_pc \notin {"klock", "kpre", "kbyte"}

\* C9 (as claimed): a key event whose adjusted scancode is >= 0xE000 makes
\* exactly the two calls 0xE0 and (code - 0xE000), in that order; any other
\* makes exactly one call, with the low byte of the adjusted scancode.
C9_CallsAsClaimed ==
  \A i \in DOMAIN kcalls :
    KeyDone(i) =>
      kcalls[i].calls =
        IF kcalls[i].code >= ExtendedBase
          THEN <<PrefixByte, kcalls[i].code - ExtendedBase>>
          ELSE <<kcalls[i].code % U8>>

\* C9 (amended): the second call of an extended key carries the low 8 bits of
\* (code - 0xE000), which is (code - 0xE000) itself only up to 0xE0FF.
C9_CallsLowByte ==
  \A i \in DOMAIN kcalls :
    KeyDone(i) =>
      kcalls[i].calls =
        IF kcalls[i].code >= ExtendedBase
          THEN <<PrefixByte, (kcalls[i].code - ExtendedBase) % U8>>
          ELSE <<kcalls[i].code % U8>>

\* C9 witness: a plain code has been delivered in one call and an extended
\* code in two.
C9_Witness ==
  /\ Len(kcalls) = 2 /\ KeyDone(2)
  /\ kcalls[1].code < ExtendedBase /\ Len(kcalls[1].calls) = 1
  /\ kcalls[2].code >= ExtendedBase /\ kcalls[2].calls[1] = PrefixByte
  /\ Len(kcalls[2].calls) = 2

\* The last handle_keyboard argument of the i-th mapped key event.
Delivered(i) == kcalls[i].calls[Len(kcalls[i].calls)]

\* Events p and r are a press and a release of the same key, both delivered.
PressRelease(p, r) ==
  /\ KeyDone(p) /\ KeyDone(r)
  /\ kcalls[p].win = kcalls[r].win
  /\ kcalls[p].value # 0 /\ kcalls[r].value = 0

\* C10 (as claimed): for every value of the mapped scancode, the code
\* delivered on release is the code delivered on press plus 0x80, and press
\* and release make the same number of calls.
C10_ReleaseIsPressPlus80 ==
  \A p, r \in DOMAIN kcalls :
    PressRelease(p, r) =>
      /\ Delivered(r) = Delivered(p) + ReleaseBias
      /\ Len(kcalls[r].calls) = Len(kcalls[p].calls)

\* C10 (amended): the same, for the mapped scancodes whose low byte is below
\* 0x80.
C10_ReleaseIsPressPlus80_LowByte ==
  \A p, r \in DOMAIN kcalls :
    (PressRelease(p, r) /\ kcalls[p].win % U8 < ReleaseBias) =>
      /\ Delivered(r) = Delivered(p) + ReleaseBias
      /\ Len(kcalls[r].calls) = Len(kcalls[p].calls)

\* C10 witness: the press and the release of an extended key have been
\* delivered.
C10_Witness ==
  /\ Len(kcalls) = 2 /\ PressRelease(1, 2)
  /\ kcalls[1].win >= ExtendedBase /\ kcalls[1].win % U8 < ReleaseBias
  /\ Delivered(2) = Delivered(1) + ReleaseBias


\* C11: whenever a setup step of the parent has failed (forkpty, opening or
\* mapping the framebuffer, cloning the master, opening the keyboard device),
\* neither thread had been spawned and no process() or flush() call had been
\* made.
C11_SetupFailsBeforeRunning ==
  setupErr.step # "none" =>
    /\ setupErr.threads = 0
    /\ processed = <<>>
    /\ nFlushes = 0

\* C15: TIOCSWINSZ is issued at most once; it is issued after the engine was
\* configured, before the PTY reader exists, and so before any process() call;
\* a session that got as far as spawning a thread has issued it exactly once.
C15_WinsizeOnceBeforeProcess ==
  /\ nWinsz <= 1
  /\ nWinsz = 1 => (width > 0 /\ m_pc \notin {"fork", "display", "configure", "winsize"})
  /\ (r_pc \notin {"unborn", "dead"} \/ f_pc \notin {"unborn", "dead"}) => nWinsz = 1
  /\ (readSoFar # <<>> \/ processed # <<>> \/ setupErr.threads > 0) => nWinsz = 1

C15_Witness == processed # <<>> /\ nWinsz = 1 /\ Alive

\* C16: the shell has started no write to the pty as long as the parent has
\* not issued TIOCSWINSZ.
C16_WinsizeBeforeShellOutput ==
  (shell_pc = "writing" \/ nextByte > 1) => nWinsz >= 1


\* The head of the keyboard batch is a key event whose key has no mapping.
UnmappedNext ==
  /\ m_pc = "kloop" /\ kbatch # <<>>
  /\ Head(kbatch).kind = "key" /\ Head(kbatch).win = NoMap

\* C12: the step of the keyboard loop on a key event without a mapping (the
\* batch changes; it is not the PTY reader ending the process) takes the event
\* off the batch and stays in the loop; it makes no handle_keyboard or
\* handle_mouse call, sends no redraw signal, takes no lock, ends nothing and
\* leaves what process() and flush() did to the terminal as it was.
C12_UnmappedKeyDropped ==
  [][(UnmappedNext /\ kbatch' # kbatch /\ lastRead' = lastRead) =>
       /\ kbatch' = Tail(kbatch) /\ m_pc' = "kloop"
       /\ exitCode' = Running
       /\ kcalls' = kcalls /\ mcalls' = mcalls
       /\ nSends' = nSends /\ chan' = chan
       /\ lock' = lock
       /\ processed' = processed /\ nFlushes' = nFlushes]_vars

\* Two events were delivered and fetched as one batch; the first was taken
\* off without a call or a signal and a key without a mapping is next.
C12_Witness ==
  /\ UnmappedNext /\ Len(kbatch) = 1
  /\ nEvents = 2 /\ kbdQ = <<>> /\ mouseQ = <<>> /\ nextByte = 1 /\ shellPending = 0
  /\ kcalls = <<>> /\ nSends = 0


\* The deltas of the wheel events of a batch, in order.
RECURSIVE WheelDeltas(_)
WheelDeltas(batch) ==
  IF batch = <<>> THEN <<>>
  ELSE (IF Head(batch).kind = "wheel" THEN <<Head(batch).value>> ELSE <<>>)
         \o WheelDeltas(Tail(batch))

\* The Scroll arguments handle_mouse has got and is still to get for the events
\* of the batch in hand: the calls made, the delta taken off the batch and not
\* yet passed on, the deltas of the wheel events still in the batch.
ScrollsDue ==
  mcalls \o (IF m_pc \in {"mlock", "mcall"} THEN <<mvalue>> ELSE <<>>)
         \o WheelDeltas(mbatch)

\* C13: while a batch of the mouse is handled, no step changes the Scroll
\* arguments made and due (every wheel event gets exactly one handle_mouse call
\* with its own delta, in order; every other event gets none), and every call
\* that has returned has been followed by exactly one redraw signal.
C13_WheelForwarded ==
  [][/\ ScrollsDue' = ScrollsDue
     /\ nSends' = Len(mcalls') - (IF m_pc' \in {"mwrite", "msend"} THEN 1 ELSE 0)]_vars

\* A batch of three events is done: two wheel events of opposite sign were
\* passed on, each with its signal, and the third event was ignored.
C13_Witness ==
  /\ m_pc = "kfetch" /\ mbatch = <<>>
  /\ Len(mcalls) = 2 /\ mcalls[1] < 0 /\ mcalls[2] > 0
  /\ nSends = 2


\* C14: every draw_pixel(x, y, rgb) with 0 <= x < width and 0 <= y < height
\* stored the four bytes of the pixel at the byte offset (y*width + x)*4 of
\* the mapping and left every other byte, and the length, as they were.
C14_PixelOffset ==
  \A k \in DOMAIN draws :
    LET d == draws[k]
        off == (d.y * width + d.x) * 4
        bytes == ToNeBytes(Pixel(d.rgb), endian)
    IN /\ d.ok
       /\ Len(d.after) = Len(d.before)
       /\ \A i \in 1..Len(d.after) :
            d.after[i] = IF off < i /\ i <= off + 4 THEN bytes[i - off] ELSE d.before[i]

\* The last pixel of a display wider and higher than one pixel was drawn: the
\* four bytes after offset (height*width - 1)*4 changed, the byte before them
\* and the first pixel did not.
C14_Witness ==
  /\ width > 1 /\ height > 1 /\ Len(draws) = 1
  /\ draws[1].x = width - 1 /\ draws[1].y = height - 1
  /\ draws[1].after[(height * width - 1) * 4 + 1] # 0
  /\ draws[1].after[(height * width - 1) * 4] = 0
  /\ draws[1].after[1] = 0


\* C17: the flush driver holds the terminal lock only while it is inside
\* flush(); waiting for a signal, reading the clock, sleeping, draining,
\* waiting for the lock and stamping last_flush it does not hold it.
C17_FlushHoldsLockOnlyInFlush == (lock = "flush") <=> (f_pc = "flush")

\* The flush driver sleeps to pace the frame while the PTY reader is inside
\* process().
C17_Witness == f_pc = "sleep" /\ sleepLeft > 0 /\ lock = "reader" /\ r_pc = "process"


\* The keyboard poller has an extended key in hand: it holds the lock and is
\* about to make the 0xE0 call, or has made it and not yet the low-byte call.
ExtendedInHand ==
  \/ m_pc = "kpre" /\ scancode >= ExtendedBase
  \/ /\ m_pc = "kbyte" /\ kcalls # <<>>
     /\ kcalls[Len(kcalls)].calls = <<PrefixByte>>

\* C19: from the 0xE0 call to the low-byte call of an extended key the
\* keyboard poller holds the lock, and neither the PTY reader is inside
\* process() nor the flush driver inside flush().
C19_ExtendedKeyUnderOneLock ==
  ExtendedInHand =>
    /\ lock = "main"
    /\ r_pc \notin {"process", "write"}
    /\ f_pc # "flush"

\* Between the two calls of an extended key the PTY reader has bytes to
\* process and waits for the lock.
C19_Witness ==
  /\ m_pc = "kbyte" /\ kcalls # <<>> /\ kcalls[Len(kcalls)].calls = <<PrefixByte>>
  /\ r_pc = "lock"

\* Most flush() calls a run of FairSpec or BlockSpec can make: one for each
\* redraw signal, one signal for each byte written and each event.
FlushesMost == Max(FairEvents, BlockEvents * BlockWrite)

\* A mutating call on the terminal has returned and its redraw signal is about
\* to be sent.
CallReturned == r_pc = "send" \/ m_pc \in {"ksend", "msend"}

\* C18: whenever process(), handle_keyboard() or handle_mouse() has returned,
\* a flush() starts later on, unless the process ends.
C18_EveryUpdateDrawn ==
  \A n \in 0..FlushesMost :
    (CallReturned /\ nFlushes = n) ~> (nFlushes > n \/ ~Alive)

====
